---- MODULE Spec2Model ----
(***************************************************************************)
(* ModelDeployment (src/telco_churn/model_deployment.py): the comparison   *)
(* of the Staging and the Production model of one registered model and the *)
(* promotion or archival of the Staging model.                             *)
(*                                                                         *)
(* The state is the configuration of the ModelDeployment object, the MLflow*)
(* Model Registry (the stage of every version of model_registry_name), the *)
(* MLflow tracking state (active experiment, active run) and the position  *)
(* and locals of run().  Every method call of run() is one action; the     *)
(* collaborators (ModelInference, ModelEvaluation, the tracking store, the *)
(* registry) answer nondeterministically: they return or they raise.       *)
(* Other writers of the registry act between the steps of run().           *)
(***************************************************************************)
EXTENDS Integers, Sequences, FiniteSets, TLC

\* Bounds of the model.
MaxVersions == 3    \* versions of the registered model
MaxMetric == 1      \* metric values 0..MaxMetric, and NaN
MaxRuns == 2        \* invocations of run()

VARIABLES
    stage,                   \* registry: version -> stage ("None": not registered)
    higher_is_better,        \* configuration (line 49)
    experiment_id,           \* configuration (line 50): "None" or "set"
    experiment_path,         \* configuration (line 51): "None" or "set"
    pc,                      \* position of run()
    runs,                    \* invocations of run() so far
    active_experiment,       \* mlflow's active experiment: "None", "by_id", "by_path"
    active_run,              \* TRUE while the run of mlflow.start_run is open
    calls,                   \* calls to the collaborators made by this invocation
    staging_pred,            \* version whose predictions are staging_inference_pred_df (0: none)
    prod_pred,               \* version whose predictions are prod_inference_pred_df (0: none)
    staging_eval_metric,     \* local of run() (line 197)
    production_eval_metric,  \* local of run() (line 203)
    missing_key,             \* stage whose eval_dict came back without the metric key
    error,                   \* the exception that reached the caller of run()
    decision,                \* stage= argument of the transition this invocation issued
    transitioned,            \* version= argument of that transition (0: none)
    committed,               \* transitions the registry committed for this invocation
    archived_existing        \* versions the committed transition archived as existing

vars == <<stage, higher_is_better, experiment_id, experiment_path, pc, runs,
          active_experiment, active_run, calls, staging_pred, prod_pred,
          staging_eval_metric, production_eval_metric, missing_key, error,
          decision, transitioned, committed, archived_existing>>

config == <<higher_is_better, experiment_id, experiment_path>>
locals == <<staging_pred, prod_pred, staging_eval_metric, production_eval_metric,
            missing_key>>
outcome == <<decision, transitioned, committed, archived_existing>>

Versions == 1..MaxVersions
Stages == {"staging", "production", "archived"}

\* ------------------------------------------------------------------ floats

\* A Python float: a number or NaN.
NaN == [nan |-> TRUE, val |-> 0]
Float(v) == [nan |-> FALSE, val |-> v]
Floats == {Float(v) : v \in 0..MaxMetric} \cup {NaN}
\* A local of run() that is not assigned yet.
Unassigned == [nan |-> FALSE, val |-> -1]

\* Python's float comparisons: every comparison with NaN is False.
PyLe(a, b) == ~a.nan /\ ~b.nan /\ a.val <= b.val
PyGt(a, b) == ~a.nan /\ ~b.nan /\ a.val > b.val
PyGe(a, b) == ~a.nan /\ ~b.nan /\ a.val >= b.val
PyLt(a, b) == ~a.nan /\ ~b.nan /\ a.val < b.val

\* ---------------------------------------------------------------- registry

\* The versions of the model in stage st.
InStage(reg, st) == {v \in Versions : reg[v] = st}

Max(S) == CHOOSE x \in S : \A y \in S : y <= x
Min(S) == CHOOSE x \in S : \A y \in S : x <= y

\* Variant: the oldest version in stage st.
LatestVersionOldest(reg, st) ==
    IF InStage(reg, st) = {} THEN 0 ELSE Min(InStage(reg, st))

\* The most recent version in stage st, 0 when there is none:
\* get_latest_versions(name, stages=[st]) is [that version] or [].
LatestVersion(reg, st) ==
    IF InStage(reg, st) = {} THEN 0 ELSE Max(InStage(reg, st))

\* Variant: archive_existing_versions is not honoured.
TransitionKeepExisting(reg, v, to, archive_existing) ==
    [reg EXCEPT ![v] = to]

\* transition_model_version_stage(name, version=v, stage=to,
\* archive_existing_versions=archive_existing), committed by the registry:
\* v moves to `to`; with archive_existing the other versions in `to` are
\* archived by the same call.
TransitionModelVersionStage(reg, v, to, archive_existing) ==
    [w \in Versions |->
        IF w = v THEN to
        ELSE IF archive_existing /\ reg[w] = to THEN "archived"
        ELSE reg[w]]

\* ------------------------------------------------------------ pure helpers

\* Variant: no error when neither is set.
SetExperimentDefault(id, path) ==
    IF id # "None" THEN "by_id" ELSE "by_path"

\* _set_experiment (lines 57-62): which experiment is set, or the error.
SetExperimentOutcome(id, path) ==
    IF id # "None" THEN "by_id"
    ELSE IF path # "None" THEN "by_path"
    ELSE "RuntimeError"

\* _run_promotion_logic (lines 138-170): the stage= argument of the transition
\* the branch taken issues, "None" when neither the if nor the elif holds.
PromotionDecision(s, p, hib) ==
    IF hib
    THEN IF PyLe(s, p) THEN "archived"
         ELSE IF PyGt(s, p) THEN "production"
         ELSE "None"
    ELSE IF PyGe(s, p) THEN "archived"
         ELSE IF PyLt(s, p) THEN "production"
         ELSE "None"

Call(op, ok, arg) == [op |-> op, ok |-> ok, arg |-> arg]

\* --------------------------------------------------------------- the state

Init ==
    /\ \E n \in 0..MaxVersions :
         stage \in {f \in [Versions -> Stages \cup {"None"}] :
                      \A v \in Versions : (f[v] = "None") <=> (v > n)}
    /\ higher_is_better \in BOOLEAN
    /\ experiment_id \in {"None", "set"}
    /\ experiment_path \in {"None", "set"}
    /\ pc = "idle"
    /\ runs = 0
    /\ active_experiment = "None"
    /\ active_run = FALSE
    /\ calls = <<>>
    /\ staging_pred = 0
    /\ prod_pred = 0
    /\ staging_eval_metric = Unassigned
    /\ production_eval_metric = Unassigned
    /\ missing_key = "None"
    /\ error = "None"
    /\ decision = "None"
    /\ transitioned = 0
    /\ committed = 0
    /\ archived_existing = {}

\* Variant: the exception leaves the run open.
RaiseLeak(exc) ==
    /\ pc' = "failed"
    /\ error' = exc
    /\ UNCHANGED active_run

\* An exception leaves the body of `with mlflow.start_run(...)` (line 189):
\* the run is ended and the exception reaches the caller of run().
Raise(exc) ==
    /\ pc' = "failed"
    /\ error' = exc
    /\ active_run' = FALSE

\* The body of the `with` completes: the run is ended and run() returns.
Return ==
    /\ pc' = "done"
    /\ active_run' = FALSE
    /\ UNCHANGED error

\* run(), line 188: a new invocation; self._set_experiment().
SetExperiment ==
    /\ pc \in {"idle", "done", "failed"}
    /\ runs < MaxRuns
    /\ runs' = runs + 1
    /\ staging_pred' = 0
    /\ prod_pred' = 0
    /\ staging_eval_metric' = Unassigned
    /\ production_eval_metric' = Unassigned
    /\ missing_key' = "None"
    /\ decision' = "None"
    /\ transitioned' = 0
    /\ committed' = 0
    /\ archived_existing' = {}
    /\ LET what == SetExperimentOutcome(experiment_id, experiment_path) IN
         IF what = "RuntimeError"
         THEN /\ calls' = <<>>
              /\ pc' = "failed"
              /\ error' = "RuntimeError"
              /\ UNCHANGED active_experiment
         ELSE \E ok \in BOOLEAN :
                /\ calls' = <<Call("set_experiment", ok, what)>>
                /\ IF ok
                   THEN /\ active_experiment' = what
                        /\ pc' = "start_run"
                        /\ error' = "None"
                   ELSE /\ pc' = "failed"
                        /\ error' = "MlflowException"
                        /\ UNCHANGED active_experiment
    /\ UNCHANGED <<stage, config, active_run>>

\* run(), line 189: mlflow.start_run(run_name='Model Comparison').
StartRun ==
    /\ pc = "start_run"
    /\ \E ok \in BOOLEAN :
         /\ calls' = Append(calls, Call("start_run", ok, ""))
         /\ IF ok
            THEN /\ active_run' = TRUE
                 /\ pc' = "infer_staging"
                 /\ UNCHANGED error
            ELSE /\ pc' = "failed"
                 /\ error' = "MlflowException"
                 /\ UNCHANGED active_run
    /\ UNCHANGED <<stage, config, runs, active_experiment, locals, outcome>>

\* run(), line 191: self._batch_inference_by_stage(stage='staging').
\* models:/<name>/staging is the most recent version in "staging" when the
\* model is loaded; ModelInference.run_batch() returns or raises.
BatchInferenceStaging ==
    /\ pc = "infer_staging"
    /\ \E runs_ok \in BOOLEAN :
         LET v == LatestVersion(stage, "staging")
             ok == runs_ok /\ v # 0
         IN /\ calls' = Append(calls, Call("run_batch", ok, "staging"))
            /\ IF ok
               THEN /\ staging_pred' = v
                    /\ pc' = "infer_production"
                    /\ UNCHANGED <<error, active_run>>
               ELSE /\ Raise("InferenceError")
                    /\ UNCHANGED staging_pred
    /\ UNCHANGED <<stage, config, runs, active_experiment, prod_pred,
                   staging_eval_metric, production_eval_metric, missing_key,
                   outcome>>

\* Variant: the failure of the inference is swallowed and run() goes on.
BatchInferenceProductionSwallow ==
    /\ pc = "infer_production"
    /\ \E runs_ok \in BOOLEAN :
         LET v == LatestVersion(stage, "production")
             ok == runs_ok /\ v # 0
         IN /\ calls' = Append(calls, Call("run_batch", ok, "production"))
            /\ prod_pred' = v
            /\ pc' = "to_pandas"
            /\ UNCHANGED <<error, active_run>>
    /\ UNCHANGED <<stage, config, runs, active_experiment, staging_pred,
                   staging_eval_metric, production_eval_metric, missing_key,
                   outcome>>

\* run(), line 192: self._batch_inference_by_stage(stage='production').
BatchInferenceProduction ==
    /\ pc = "infer_production"
    /\ \E runs_ok \in BOOLEAN :
         LET v == LatestVersion(stage, "production")
             ok == runs_ok /\ v # 0
         IN /\ calls' = Append(calls, Call("run_batch", ok, "production"))
            /\ IF ok
               THEN /\ prod_pred' = v
                    /\ pc' = "to_pandas"
                    /\ UNCHANGED <<error, active_run>>
               ELSE /\ Raise("InferenceError")
                    /\ UNCHANGED prod_pred
    /\ UNCHANGED <<stage, config, runs, active_experiment, staging_pred,
                   staging_eval_metric, production_eval_metric, missing_key,
                   outcome>>

\* run(), lines 194-195: the two toPandas() calls, which return or raise.
ToPandas ==
    /\ pc = "to_pandas"
    /\ \E ok \in BOOLEAN :
         /\ calls' = Append(calls, Call("toPandas", ok, ""))
         /\ IF ok
            THEN /\ pc' = "eval_staging"
                 /\ UNCHANGED <<error, active_run>>
            ELSE Raise("InferenceError")
    /\ UNCHANGED <<stage, config, runs, active_experiment, locals, outcome>>

\* What ModelEvaluation().evaluate and mlflow.log_metrics can do in one call
\* of _get_evaluation_metric: evaluate raises; evaluate returns eval_dict and
\* log_metrics raises; both return. eval_dict holds the key or does not.
EvalOutcomes == {"evaluate_raises", "log_metrics_raises", "logged"}

\* _get_evaluation_metric (lines 114-119) for one stage: the calls it makes.
EvaluationCalls(st, what) ==
    IF what = "evaluate_raises"
    THEN <<Call("evaluate", FALSE, st)>>
    ELSE <<Call("evaluate", TRUE, st),
           Call("log_metrics", what = "logged", st)>>

\* Variant: a lookup with a default, which never raises.
KeyLookupNeverRaises(has_key) == FALSE

\* eval_dict[metric_prefix + metric] (line 117) raises KeyError when the key
\* is not in eval_dict.
KeyLookupRaises(has_key) == ~has_key

\* run(), lines 197-200: staging_eval_metric = self._get_evaluation_metric(...).
GetEvaluationMetricStaging ==
    /\ pc = "eval_staging"
    /\ \E what \in EvalOutcomes, has_key \in BOOLEAN, value \in Floats :
         /\ calls' = calls \o EvaluationCalls("staging", what)
         /\ missing_key' = IF what # "evaluate_raises" /\ ~has_key
                           THEN "staging" ELSE missing_key
         /\ IF what = "evaluate_raises" THEN
                /\ Raise("EvaluationError")
                /\ UNCHANGED staging_eval_metric
            ELSE IF what = "log_metrics_raises" THEN
                /\ Raise("MlflowException")
                /\ UNCHANGED staging_eval_metric
            ELSE IF KeyLookupRaises(has_key) THEN
                /\ Raise("KeyError")
                /\ UNCHANGED staging_eval_metric
            ELSE
                /\ staging_eval_metric' = value
                /\ pc' = "eval_production"
                /\ UNCHANGED <<error, active_run>>
    /\ UNCHANGED <<stage, config, runs, active_experiment, staging_pred,
                   prod_pred, production_eval_metric, outcome>>

\* run(), lines 203-206: production_eval_metric = self._get_evaluation_metric(...).
GetEvaluationMetricProduction ==
    /\ pc = "eval_production"
    /\ \E what \in EvalOutcomes, has_key \in BOOLEAN, value \in Floats :
         /\ calls' = calls \o EvaluationCalls("production", what)
         /\ missing_key' = IF what # "evaluate_raises" /\ ~has_key
                           THEN "production" ELSE missing_key
         /\ IF what = "evaluate_raises" THEN
                /\ Raise("EvaluationError")
                /\ UNCHANGED production_eval_metric
            ELSE IF what = "log_metrics_raises" THEN
                /\ Raise("MlflowException")
                /\ UNCHANGED production_eval_metric
            ELSE IF KeyLookupRaises(has_key) THEN
                /\ Raise("KeyError")
                /\ UNCHANGED production_eval_metric
            ELSE
                /\ production_eval_metric' = value
                /\ pc' = "promotion"
                /\ UNCHANGED <<error, active_run>>
    /\ UNCHANGED <<stage, config, runs, active_experiment, staging_pred,
                   prod_pred, staging_eval_metric, outcome>>

\* Variant: a rejected transition is issued again.
TransitionCallsRetry(to, accepted) ==
    IF accepted
    THEN <<Call("transition_model_version_stage", TRUE, to)>>
    ELSE <<Call("transition_model_version_stage", FALSE, to),
           Call("transition_model_version_stage", FALSE, to)>>

\* The transition calls _run_promotion_logic issues for one branch (lines
\* 142-144, 150-153, 159-161, 167-170): one call, which the registry accepts
\* or rejects.
TransitionCalls(to, accepted) ==
    <<Call("transition_model_version_stage", accepted, to)>>

\* run(), line 210: self._run_promotion_logic(staging_eval_metric,
\* production_eval_metric) (lines 133-170): the lookup of the most recent
\* version in "staging", the comparison, and the transition of that version,
\* taken as one step. The registry commits a transition as a whole or
\* rejects it and changes nothing.
RunPromotionLogic ==
    /\ pc = "promotion"
    /\ \E lookup_ok \in BOOLEAN, accepted \in BOOLEAN :
         LET v == LatestVersion(stage, "staging")
             to == PromotionDecision(staging_eval_metric,
                                     production_eval_metric, higher_is_better)
             lookup == Call("get_latest_versions", lookup_ok, "staging")
         IN IF ~lookup_ok THEN
                /\ calls' = Append(calls, lookup)
                /\ Raise("MlflowException")
                /\ UNCHANGED <<stage, outcome>>
            ELSE IF v = 0 THEN
                \* [][0]: no version is in "staging"
                /\ calls' = Append(calls, lookup)
                /\ Raise("IndexError")
                /\ UNCHANGED <<stage, outcome>>
            ELSE IF to = "None" THEN
                \* neither the if nor the elif holds
                /\ calls' = Append(calls, lookup)
                /\ Return
                /\ UNCHANGED <<stage, outcome>>
            ELSE
                /\ calls' = Append(calls, lookup) \o TransitionCalls(to, accepted)
                /\ decision' = to
                /\ transitioned' = v
                /\ IF accepted
                   THEN /\ stage' = TransitionModelVersionStage(
                                        stage, v, to, to = "production")
                        /\ committed' = committed + 1
                        /\ archived_existing' =
                             IF to = "production"
                             THEN InStage(stage, "production") \ {v}
                             ELSE {}
                        /\ Return
                   ELSE /\ Raise("MlflowException")
                        /\ UNCHANGED <<stage, committed, archived_existing>>
    /\ UNCHANGED <<config, runs, active_experiment, locals>>

\* ------------------------------------------------ other registry writers

\* Another writer registers a new version of the model and puts it in
\* "staging" (the training pipeline does, for every candidate).
RegisterStagingVersion ==
    /\ InStage(stage, "None") # {}
    /\ stage' = [stage EXCEPT ![Min(InStage(stage, "None"))] = "staging"]
    /\ UNCHANGED <<config, pc, runs, active_experiment, active_run, calls,
                   locals, error, outcome>>

\* Another writer moves a version out of "staging".
ArchiveStagingVersion ==
    /\ \E v \in InStage(stage, "staging") :
         stage' = [stage EXCEPT ![v] = "archived"]
    /\ UNCHANGED <<config, pc, runs, active_experiment, active_run, calls,
                   locals, error, outcome>>

\* ------------------------------------------------------- the specification

Next ==
    \/ SetExperiment
    \/ StartRun
    \/ BatchInferenceStaging
    \/ BatchInferenceProduction
    \/ ToPandas
    \/ GetEvaluationMetricStaging
    \/ GetEvaluationMetricProduction
    \/ RunPromotionLogic
    \/ RegisterStagingVersion
    \/ ArchiveStagingVersion

Spec == Init /\ [][Next]_vars

\* ---------------------------------------------------------------- claims

\* The calls of this invocation that returned.
Returned(op, arg) == \E i \in DOMAIN calls : calls[i] = Call(op, TRUE, arg)
Issued(op) == {i \in DOMAIN calls : calls[i].op = op}
\* A step of run() (the other writers change none of these).
RunStepTaken == runs' # runs \/ pc' # pc \/ calls' # calls

\* The staging metric is strictly better than the production metric.
StrictlyBetter(s, p, hib) ==
    /\ ~s.nan
    /\ ~p.nan
    /\ IF hib THEN s.val > p.val ELSE s.val < p.val

\* C1: whenever _run_promotion_logic has completed, it has transitioned the
\* staging version to "production" if the staging metric is strictly better
\* and to "archived" in every other case, for all metric values.
C1_PromotesIffStrictlyBetter ==
    pc = "done" =>
        decision = IF StrictlyBetter(staging_eval_metric,
                                     production_eval_metric, higher_is_better)
                   THEN "production" ELSE "archived"

\* C2: for every triple that reaches _run_promotion_logic exactly one of the
\* two decisions (archive staging, promote staging) is taken, never neither.
C2_ExactlyOneDecision ==
    pc = "done" =>
        /\ (decision = "archived") # (decision = "production")
        /\ committed = 1

\* C3: with experiment_id and experiment_path both unset, run() fails with
\* the configuration error and has made no call at all: no experiment set,
\* no run started, no inference, no metric, no lookup, no transition.
C3_ConfigErrorBeforeAnyCall ==
    (experiment_id = "None" /\ experiment_path = "None") =>
        /\ calls = <<>>
        /\ active_experiment = "None"
        /\ ~active_run
        /\ staging_pred = 0 /\ prod_pred = 0
        /\ staging_eval_metric = Unassigned
        /\ production_eval_metric = Unassigned
        /\ transitioned = 0 /\ committed = 0
        /\ runs > 0 => (pc = "failed" /\ error = "RuntimeError")

C3_Witness ==
    experiment_id = "None" /\ experiment_path = "None" /\ pc = "failed"

\* No promotion was attempted by this invocation.
NoPromotionAttempted ==
    /\ Issued("get_latest_versions") = {}
    /\ Issued("transition_model_version_stage") = {}
    /\ decision = "None" /\ transitioned = 0 /\ committed = 0

\* C4 as stated: an eval_dict without the key makes run() fail with the
\* metric-not-found error (KeyError), and no promotion is attempted.
C4_MissingKeyIsKeyError ==
    missing_key # "None" =>
        pc = "failed" /\ error = "KeyError" /\ NoPromotionAttempted

\* C4 as amended: an eval_dict without the key makes run() fail and no
\* promotion is attempted; the error is KeyError when log_metrics(eval_dict)
\* returned, and the error of log_metrics when it raised (the dictionary is
\* logged on line 116, before the key is looked up on line 117).
C4_MissingKeyAborts ==
    missing_key # "None" =>
        /\ pc = "failed"
        /\ NoPromotionAttempted
        /\ error = IF Returned("log_metrics", missing_key)
                   THEN "KeyError" ELSE "MlflowException"

C4_Witness ==
    /\ missing_key = "production"
    /\ error = "KeyError"
    /\ Returned("log_metrics", "staging")
    /\ Returned("log_metrics", "production")

\* C5: when run() has returned or its error has reached the caller, the
\* tracking run it started is closed; a run is open only inside the body.
C5_RunClosedOnExit ==
    /\ pc \in {"idle", "done", "failed"} => ~active_run
    /\ active_run => Returned("start_run", "")

C5_Witness ==
    /\ pc = "failed"
    /\ Returned("start_run", "")
    /\ error = "InferenceError"
    /\ ~active_run

\* C6: the transition call is issued at most once per invocation, as the
\* last call, after both inferences returned and both metrics were computed.
C6_TransitionOnceAndLast ==
    /\ Cardinality(Issued("transition_model_version_stage")) <= 1
    /\ committed <= 1
    /\ \A i \in Issued("transition_model_version_stage") :
         /\ i = Len(calls)
         /\ pc \in {"done", "failed"}
         /\ Returned("run_batch", "staging")
         /\ Returned("run_batch", "production")
         /\ Returned("evaluate", "staging")
         /\ Returned("evaluate", "production")
         /\ staging_eval_metric \in Floats
         /\ production_eval_metric \in Floats

C6_Witness ==
    /\ pc = "failed"
    /\ \E i \in DOMAIN calls :
         calls[i].op = "transition_model_version_stage" /\ ~calls[i].ok

\* C7: no step takes a registry with at most one version in "production"
\* to a registry with more than one.
C7_AtMostOneProduction ==
    [][Cardinality(InStage(stage, "production")) <= 1
         => Cardinality(InStage(stage', "production")) <= 1]_vars

C7_Witness ==
    /\ pc = "done"
    /\ decision = "production"
    /\ archived_existing # {}
    /\ InStage(stage, "production") = {transitioned}

\* C8: a step of run() leaves the registry as it is, or archives the most
\* recent version in "staging", or moves it to "production" and archives
\* the versions that were in "production"; without a version in "staging"
\* the promotion fails with the lookup error and changes nothing.
StageChangeAllowed ==
    \/ stage' = stage
    \/ \E v \in Versions :
         /\ stage[v] = "staging"
         /\ \A w \in Versions : stage[w] = "staging" => w <= v
         /\ \/ stage' = [stage EXCEPT ![v] = "archived"]
            \/ stage' = [w \in Versions |->
                           IF w = v THEN "production"
                           ELSE IF stage[w] = "production" THEN "archived"
                           ELSE stage[w]]

C9_FirstErrorAborts ==
    /\ [](/\ \A i \in DOMAIN calls :
               ~calls[i].ok => (i = Len(calls) /\ pc = "failed")
          /\ (pc = "failed") <=> (error # "None")
          /\ pc = "failed" => committed = 0)
    /\ [][(RunStepTaken /\ pc' = "failed") => stage' = stage]_vars
    /\ [][(pc = "failed" /\ runs' = runs) => (pc' = pc /\ calls' = calls)]_vars

C9_Witness ==
    /\ pc = "failed"
    /\ transitioned # 0
    /\ stage[transitioned] = "staging"
    /\ \E i \in DOMAIN calls :
         calls[i].op = "transition_model_version_stage" /\ ~calls[i].ok

\* C10: the version run() promotes or archives is the version whose
\* predictions produced the staging metric, whatever the other writers of
\* the registry do between the inference and the promotion.
C10_TransitionedIsScored ==
    committed = 1 => transitioned = staging_pred

====
